---- MODULE Spec2Model ----
(***************************************************************************)
(* A model of src/src/UniswappyV2EthPair.ts: one UniswappyV2EthPair market *)
(* (its reserve mapping and constant-product quotations), the paginated    *)
(* discovery of one factory (getUniswappyMarkets), and the                 *)
(* discover / group / updateReserves / regroup pipeline                    *)
(* (getUniswapMarketsByToken).                                             *)
(*                                                                         *)
(* ethers' BigNumber is arbitrary precision, so no width is modelled; the  *)
(* values are kept small enough for TLC's integers.  The program's *)
(* ETHER (10^18), UNISWAP_BATCH_SIZE (1000) and BATCH_COUNT_LIMIT (100)    *)
(* are scaled down and act as bounds of the model.                         *)
(***************************************************************************)
EXTENDS Integers, Sequences, FiniteSets

VARIABLES
    tokens,          \* EthMarket._tokens of the market under study
    tokenBalances,   \* UniswappyV2EthPair._tokenBalances: key -> reserve
    call,            \* the last public method called on the market, with its arguments
    ret,             \* what that call returned or threw
    registry,        \* the factory's pairs, as getPairsByIndexRange serves them
    i,               \* getUniswappyMarkets: the outer loop's index
    marketPairs,     \* getUniswappyMarkets: the markets collected so far
    requests,        \* getUniswappyMarkets: the start index of every page requested
    dpc,             \* getUniswappyMarkets: "request" (about to await a page) or "returned"
    registries,      \* getUniswapMarketsByToken: registry of each factory address
    allPairs,        \* getUniswapMarketsByToken: the markets each discovery returned
    allMarketPairs,  \* getUniswapMarketsByToken: markets kept by the first grouping
    reserves,        \* updateReserves: the response of getReservesByPairs
    marketsByToken,  \* getUniswapMarketsByToken: the returned index
    ppc              \* getUniswapMarketsByToken: "start", "sync", "returned" or "threw"

vars == <<tokens, tokenBalances, call, ret, registry, i, marketPairs, requests, dpc,
          registries, allPairs, allMarketPairs, reserves, marketsByToken, ppc>>

marketVars == <<tokens, tokenBalances, call, ret>>
discoverVars == <<registry, i, marketPairs, requests, dpc>>
pipelineVars == <<registries, allPairs, allMarketPairs, reserves, marketsByToken, ppc>>

----------------------------------------------------------------------------
(* Bounds and constants *)

\* Small amounts and reserves 0..MaxSmall are tried, beside the fee constants.
MaxSmall == 2

\* The fee of 0.3%: getAmountOut multiplies the input by 997 and the reserve by 1000.
FeeNumerator == 997
FeeDenominator == 1000

\* JavaScript's undefined, as a reserve value no BigNumber of the model takes.
undefined == 0 - 1

WETH_ADDRESS == "WETH"
blacklistTokens == {"BL"}
AllTokens == {WETH_ADDRESS, "X", "Y"}

\* The amounts and reserves the market's operations are tried on.
Values == (0 .. MaxSmall) \cup {FeeNumerator, FeeDenominator}

----------------------------------------------------------------------------
(* Results of a call: a returned value or a thrown error *)

Ok(v) == [kind |-> "ok", val |-> v, err |-> ""]
Throw(e) == [kind |-> "throw", val |-> 0, err |-> e]
Void == [kind |-> "void", val |-> 0, err |-> ""]

NoCall == [op |-> "constructor", tokenIn |-> "", tokenOut |-> "", amount |-> 0]
Called(op, tIn, tOut, amt) == [op |-> op, tokenIn |-> tIn, tokenOut |-> tOut, amount |-> amt]

----------------------------------------------------------------------------
(* lodash and BigNumber helpers *)

Abs(x) == IF x < 0 THEN 0 - x ELSE x

\* BigNumber.div on a non-zero divisor: bn.js truncates toward zero.
BNdiv(a, b) ==
    LET q == Abs(a) \div Abs(b)
    IN  IF (a < 0) = (b < 0) THEN q ELSE 0 - q

\* _.zipObject(props, values): props[k] -> values[k], a later duplicate key wins,
\* a key with no value gets undefined, values past the keys are dropped.
zipObject(props, values) ==
    [k \in {props[n] : n \in 1 .. Len(props)} |->
        LET last == CHOOSE n \in 1 .. Len(props) :
                        /\ props[n] = k
                        /\ \A m \in 1 .. Len(props) : props[m] = k => m <= n
        IN  IF last <= Len(values) THEN values[last] ELSE undefined]

\* obj[key] of a plain object: undefined for a key it does not hold.
Lookup(tb, t) == IF t \in DOMAIN tb THEN tb[t] ELSE undefined

----------------------------------------------------------------------------
(* The market: UniswappyV2EthPair *)

\* constructor: both reserves start at BigNumber 0.
constructor(toks) == zipObject(toks, <<0, 0>>)

\* getBalance(tokenAddress)
getBalance(tb, tokenAddress) ==
    LET balance == Lookup(tb, tokenAddress)
    IN  IF balance = undefined THEN Throw("bad token") ELSE Ok(balance)

\* setReservesViaMatchingArray(tokens, balances): the new mapping.
setReservesViaMatchingArray(tb, toks, balances) ==
    LET zipped == zipObject(toks, balances)
    IN  IF zipped # tb THEN zipped ELSE tb

\* setReservesViaOrderedBalances(balances): the new mapping.
setReservesViaOrderedBalances(tb, toks, balances) ==
    setReservesViaMatchingArray(tb, toks, balances)

getAmountOut_swapped(reserveIn, reserveOut, amountIn) ==
    IF reserveIn = undefined \/ reserveOut = undefined
    THEN Throw("TypeError")
    ELSE LET amountInWithFee == amountIn * FeeNumerator
             numerator == amountInWithFee * reserveIn
             denominator == reserveOut * FeeDenominator + amountInWithFee
         IN  IF denominator = 0
             THEN Throw("division-by-zero")
             ELSE Ok(BNdiv(numerator, denominator))

\* getAmountOut(reserveIn, reserveOut, amountIn)
getAmountOut(reserveIn, reserveOut, amountIn) ==
    IF reserveIn = undefined \/ reserveOut = undefined
    THEN Throw("TypeError")
    ELSE LET amountInWithFee == amountIn * FeeNumerator
             numerator == amountInWithFee * reserveOut
             denominator == reserveIn * FeeDenominator + amountInWithFee
         IN  IF denominator = 0
             THEN Throw("division-by-zero")
             ELSE Ok(BNdiv(numerator, denominator))

\* getAmountIn(reserveIn, reserveOut, amountOut)
getAmountIn(reserveIn, reserveOut, amountOut) ==
    IF reserveIn = undefined \/ reserveOut = undefined
    THEN Throw("TypeError")
    ELSE LET numerator == reserveIn * amountOut * FeeDenominator
             denominator == (reserveOut - amountOut) * FeeNumerator
         IN  IF denominator = 0
             THEN Throw("division-by-zero")
             ELSE Ok(BNdiv(numerator, denominator) + 1)

getTokensIn_swapped(tb, tokenIn, tokenOut, amountOut) ==
    LET reserveIn == Lookup(tb, tokenOut)
        reserveOut == Lookup(tb, tokenIn)
    IN  getAmountIn(reserveIn, reserveOut, amountOut)

\* getTokensIn(tokenIn, tokenOut, amountOut)
getTokensIn(tb, tokenIn, tokenOut, amountOut) ==
    LET reserveIn == Lookup(tb, tokenIn)
        reserveOut == Lookup(tb, tokenOut)
    IN  getAmountIn(reserveIn, reserveOut, amountOut)

getTokensOut_sameReserve(tb, tokenIn, tokenOut, amountIn) ==
    LET reserveIn == Lookup(tb, tokenIn)
        reserveOut == Lookup(tb, tokenIn)
    IN  getAmountOut(reserveIn, reserveOut, amountIn)

\* getTokensOut(tokenIn, tokenOut, amountIn)
getTokensOut(tb, tokenIn, tokenOut, amountIn) ==
    LET reserveIn == Lookup(tb, tokenIn)
        reserveOut == Lookup(tb, tokenOut)
    IN  getAmountOut(reserveIn, reserveOut, amountIn)

\* The calldata of swap(amount0Out, amount1Out, to, data), kept as its arguments.
Swap(amount0Out, amount1Out, to) ==
    [kind |-> "ok", val |-> 0, err |-> "",
     amount0Out |-> amount0Out, amount1Out |-> amount1Out, to |-> to, data |-> <<>>]

\* sellTokens(tokenIn, amountIn, recipient)
sellTokens(toks, tb, tokenIn, amountIn, recipient) ==
    IF tokenIn = toks[1]
    THEN LET out == getTokensOut(tb, tokenIn, toks[2], amountIn)
         IN  IF out.kind = "throw" THEN out ELSE Swap(0, out.val, recipient)
    ELSE IF tokenIn = toks[2]
    THEN LET out == getTokensOut(tb, tokenIn, toks[1], amountIn)
         IN  IF out.kind = "throw" THEN out ELSE Swap(out.val, 0, recipient)
    ELSE Throw("Bad token input address")

\* A market object: its address, its tokens in the registry's order, its reserves.
UniswappyV2EthPair(marketAddress, toks) ==
    [marketAddress |-> marketAddress, tokens |-> toks, tokenBalances |-> constructor(toks)]

\* updateReserves(provider, allMarketPairs), given the response `resp` of
\* getReservesByPairs: the loop runs over allMarketPairs and throws a TypeError at the
\* first index the response does not hold, the markets before it already updated.
updateReserves(mkts, resp) ==
    [markets |->
        [n \in 1 .. Len(mkts) |->
            IF n <= Len(resp)
            THEN [mkts[n] EXCEPT !.tokenBalances =
                     setReservesViaOrderedBalances(mkts[n].tokenBalances, mkts[n].tokens,
                                                   <<resp[n][1], resp[n][2]>>)]
            ELSE mkts[n]],
     result |-> IF Len(resp) < Len(mkts) THEN Throw("TypeError") ELSE Void]

----------------------------------------------------------------------------
(* Discovery: getUniswappyMarkets *)

\* The page size and the page limit of getUniswappyMarkets (1000 and 100 in the
\* program), scaled down.
UNISWAP_BATCH_SIZE == 2
BATCH_COUNT_LIMIT == 2

\* The longest registry tried: one pair more than the page limit lets the loop read.
MaxRegistry == 5

\* The pairs a registry may hold, as (token0, token1): the quote asset first or second,
\* a second asset, a pair without the quote asset, a blacklisted asset.
PairKinds == {<<WETH_ADDRESS, "X">>, <<"X", WETH_ADDRESS>>, <<WETH_ADDRESS, "Y">>,
              <<"X", "Y">>, <<WETH_ADDRESS, "BL">>}

Min(a, b) == IF a < b THEN a ELSE b

\* uniswapQuery.functions.getPairsByIndexRange(factoryAddress, start, stop): the pairs
\* of index start .. stop - 1 the registry holds, each as [token0, token1, pairAddress].
getPairsByIndexRange(reg, factoryAddress, start, stop) ==
    [n \in 1 .. (Min(stop, Len(reg)) - Min(start, Len(reg))) |->
        <<reg[start + n][1], reg[start + n][2], <<factoryAddress, start + n - 1>>>>]

\* The inner loop's test: the pair holds WETH and its other token is not blacklisted.
keepsPair(pair) ==
    /\ pair[1] = WETH_ADDRESS \/ pair[2] = WETH_ADDRESS
    /\ LET tokenAddress == IF pair[1] = WETH_ADDRESS THEN pair[2] ELSE pair[1]
       IN  tokenAddress \notin blacklistTokens

\* The inner loop: a market for every pair kept, tokens in the registry's order.
marketsOfPage(pairs) ==
    LET kept == SelectSeq(pairs, keepsPair)
    IN  [n \in 1 .. Len(kept) |-> UniswappyV2EthPair(kept[n][3], <<kept[n][1], kept[n][2]>>)]

lastPage_emptyOnly(pairs) == Len(pairs) = 0

\* if (pairs.length < UNISWAP_BATCH_SIZE) break
lastPage(pairs) == Len(pairs) < UNISWAP_BATCH_SIZE

\* One iteration of the outer loop, from the request of a page to the loop's test:
\* st = [i, marketPairs, requests, pc].
discoverStep(reg, factoryAddress, st) ==
    LET pairs == getPairsByIndexRange(reg, factoryAddress, st.i, st.i + UNISWAP_BATCH_SIZE)
        collected == st.marketPairs \o marketsOfPage(pairs)
        asked == Append(st.requests, st.i)
    IN  IF lastPage(pairs)
        THEN [i |-> st.i, marketPairs |-> collected, requests |-> asked, pc |-> "returned"]
        ELSE [i |-> st.i + UNISWAP_BATCH_SIZE, marketPairs |-> collected, requests |-> asked,
              pc |-> IF st.i + UNISWAP_BATCH_SIZE < BATCH_COUNT_LIMIT * UNISWAP_BATCH_SIZE
                     THEN "request" ELSE "returned"]

\* The loop's start: i = 0, nothing collected.
discoverStart ==
    [i |-> 0, marketPairs |-> <<>>, requests |-> <<>>,
     pc |-> IF 0 < BATCH_COUNT_LIMIT * UNISWAP_BATCH_SIZE THEN "request" ELSE "returned"]

RECURSIVE discoverRun(_, _, _)
discoverRun(reg, factoryAddress, st) ==
    IF st.pc = "returned" THEN st
    ELSE discoverRun(reg, factoryAddress, discoverStep(reg, factoryAddress, st))

\* getUniswappyMarkets(provider, factoryAddress): the markets it returns.
getUniswappyMarkets(reg, factoryAddress) ==
    discoverRun(reg, factoryAddress, discoverStart).marketPairs

----------------------------------------------------------------------------
(* The pipeline: getUniswapMarketsByToken *)

\* The liquidity threshold (10^18 in the program), scaled down.
ETHER == 2

\* The most pairs the registries of the pipeline hold together.
MaxPairs == 4

factoryAddresses == <<"f1", "f2">>

\* pair => pair.tokens[0] === WETH_ADDRESS ? pair.tokens[1] : pair.tokens[0]
tokenKey(pair) == IF pair.tokens[1] = WETH_ADDRESS THEN pair.tokens[2] ELSE pair.tokens[1]

\* The keys of _.groupBy(pairs, tokenKey), in the order an object lists them: by first
\* appearance.
groupKeys(pairs) ==
    LET first == SelectSeq([n \in 1 .. Len(pairs) |-> n],
                           LAMBDA n : \A m \in 1 .. (n - 1) : tokenKey(pairs[m]) # tokenKey(pairs[n]))
    IN  [n \in 1 .. Len(first) |-> tokenKey(pairs[first[n]])]

\* _.groupBy(pairs, tokenKey): key -> the pairs of that key, in their order.
groupBy(pairs) ==
    [k \in {tokenKey(pairs[n]) : n \in 1 .. Len(pairs)} |->
        SelectSeq(pairs, LAMBDA pair : tokenKey(pair) = k)]

RECURSIVE flatten(_)
\* _.flatten of an array of arrays.
flatten(arrays) ==
    IF arrays = <<>> THEN <<>> ELSE Head(arrays) \o flatten(Tail(arrays))

\* a => a.length > 1
morethanone(group) == Len(group) > 1

\* The first grouping: the groups of more than one market, flattened in key order.
firstGrouping(pairsOfFactories) ==
    LET flat == flatten(pairsOfFactories)
        marketsByTokenAll == groupBy(flat)
        picked == SelectSeq(groupKeys(flat), LAMBDA k : morethanone(marketsByTokenAll[k]))
    IN  flatten([n \in 1 .. Len(picked) |-> marketsByTokenAll[picked[n]]])

hasLiquidity_gte(pair) ==
    LET balance == getBalance(pair.tokenBalances, WETH_ADDRESS)
    IN  [kind |-> balance.kind, keep |-> balance.kind = "ok" /\ balance.val >= ETHER]

\* pair => pair.getBalance(WETH_ADDRESS).gt(ETHER), which throws with getBalance.
hasLiquidity(pair) ==
    LET balance == getBalance(pair.tokenBalances, WETH_ADDRESS)
    IN  [kind |-> balance.kind, keep |-> balance.kind = "ok" /\ balance.val > ETHER]

\* The second grouping: the markets above the threshold, grouped by their token.
secondGrouping(pairs) ==
    IF \E n \in 1 .. Len(pairs) : hasLiquidity(pairs[n]).kind = "throw"
    THEN [result |-> Throw("bad token"), marketsByToken |-> <<>>]
    ELSE [result |-> Void,
          marketsByToken |-> groupBy(SelectSeq(pairs, LAMBDA pair : hasLiquidity(pair).keep))]

----------------------------------------------------------------------------
(* The market's specification: any sequence of public calls on one market *)

Recipient == "recipient"

\* The arrays a caller may pass as balances: one or two reserves.
BalanceArrays == UNION {[1 .. n -> Values] : n \in 1 .. 2}
TokenArrays == [1 .. 2 -> AllTokens]
\* The responses of getReservesByPairs for one market: none, one or two pairs.
\* The balances tried with a caller's own token array.
MatchingBalances == [1 .. 2 -> {0, 1, FeeDenominator}]
Responses1 == UNION {[1 .. n -> {<<0, 0>>, <<MaxSmall, 1>>, <<FeeDenominator, FeeNumerator>>}] : n \in 0 .. 2}

Init ==
    /\ tokens = <<WETH_ADDRESS, "X">>
    /\ tokenBalances = constructor(tokens)
    /\ call = NoCall
    /\ ret = Void
    /\ registry = <<>> /\ i = 0 /\ marketPairs = <<>> /\ requests = <<>> /\ dpc = "idle"
    /\ registries = <<>> /\ allPairs = <<>> /\ allMarketPairs = <<>> /\ reserves = <<>>
    /\ marketsByToken = <<>> /\ ppc = "idle"

SetReservesViaOrderedBalances ==
    \E balances \in BalanceArrays :
        /\ tokenBalances' = setReservesViaOrderedBalances(tokenBalances, tokens, balances)
        /\ call' = Called("setReservesViaOrderedBalances", "", "", Len(balances))
        /\ ret' = Void
        /\ UNCHANGED <<tokens, discoverVars, pipelineVars>>

SetReservesViaMatchingArray ==
    \E toks \in TokenArrays, balances \in MatchingBalances :
        /\ tokenBalances' = setReservesViaMatchingArray(tokenBalances, toks, balances)
        /\ call' = Called("setReservesViaMatchingArray", toks[1], toks[2], 0)
        /\ ret' = Void
        /\ UNCHANGED <<tokens, discoverVars, pipelineVars>>

UpdateReserves ==
    \E resp \in Responses1 :
        LET updated == updateReserves(<<[marketAddress |-> "m", tokens |-> tokens,
                                         tokenBalances |-> tokenBalances]>>, resp)
        IN  /\ tokenBalances' = updated.markets[1].tokenBalances
            /\ call' = Called("updateReserves", "", "", Len(resp))
            /\ ret' = updated.result
            /\ UNCHANGED <<tokens, discoverVars, pipelineVars>>

GetBalance ==
    \E t \in AllTokens :
        /\ call' = Called("getBalance", t, "", 0)
        /\ ret' = getBalance(tokenBalances, t)
        /\ UNCHANGED <<tokens, tokenBalances, discoverVars, pipelineVars>>

GetTokensOut ==
    \E tIn \in AllTokens, tOut \in AllTokens, amountIn \in Values :
        /\ call' = Called("getTokensOut", tIn, tOut, amountIn)
        /\ ret' = getTokensOut(tokenBalances, tIn, tOut, amountIn)
        /\ UNCHANGED <<tokens, tokenBalances, discoverVars, pipelineVars>>

GetTokensIn ==
    \E tIn \in AllTokens, tOut \in AllTokens, amountOut \in Values :
        /\ call' = Called("getTokensIn", tIn, tOut, amountOut)
        /\ ret' = getTokensIn(tokenBalances, tIn, tOut, amountOut)
        /\ UNCHANGED <<tokens, tokenBalances, discoverVars, pipelineVars>>

SellTokens ==
    \E tIn \in AllTokens, amountIn \in Values :
        /\ call' = Called("sellTokens", tIn, "", amountIn)
        /\ ret' = sellTokens(tokens, tokenBalances, tIn, amountIn, Recipient)
        /\ UNCHANGED <<tokens, tokenBalances, discoverVars, pipelineVars>>

Next ==
    \/ SetReservesViaOrderedBalances
    \/ SetReservesViaMatchingArray
    \/ UpdateReserves
    \/ GetBalance
    \/ GetTokensOut
    \/ GetTokensIn
    \/ SellTokens

Spec == Init /\ [][Next]_vars

----------------------------------------------------------------------------
(* The discovery's specification: getUniswappyMarkets on one registry, page by page *)

\* The pairs of the registry discovered: one of each way the inner loop treats a pair.
DiscoverKinds == PairKinds \ {<<WETH_ADDRESS, "Y">>}

Registries == UNION {[1 .. n -> DiscoverKinds] : n \in 0 .. MaxRegistry}

InitDiscover ==
    /\ registry \in Registries
    /\ i = discoverStart.i
    /\ marketPairs = discoverStart.marketPairs
    /\ requests = discoverStart.requests
    /\ dpc = discoverStart.pc
    /\ tokens = <<WETH_ADDRESS, "X">> /\ tokenBalances = constructor(tokens)
    /\ call = NoCall /\ ret = Void
    /\ registries = <<>> /\ allPairs = <<>> /\ allMarketPairs = <<>> /\ reserves = <<>>
    /\ marketsByToken = <<>> /\ ppc = "idle"

\* One iteration of the loop of getUniswappyMarkets: the awaited page is served, its
\* pairs are filtered, and the loop breaks, goes on or ends.
RequestPage ==
    /\ dpc = "request"
    /\ LET st == discoverStep(registry, "f1",
                     [i |-> i, marketPairs |-> marketPairs, requests |-> requests, pc |-> dpc])
       IN  /\ i' = st.i
           /\ marketPairs' = st.marketPairs
           /\ requests' = st.requests
           /\ dpc' = st.pc
    /\ UNCHANGED <<registry, marketVars, pipelineVars>>

NextDiscover == RequestPage

\* The awaited page always arrives: the provider answers every request.
SpecDiscover == InitDiscover /\ [][NextDiscover]_vars /\ WF_vars(RequestPage)

----------------------------------------------------------------------------
(* The pipeline's specification: getUniswapMarketsByToken on two factories *)

PipelineKinds == PairKinds \ {<<"X", "Y">>}

\* The registries of the two factories: at most MaxPairs pairs together.
PipelineRegistries ==
    UNION {{<<a, b>> : a \in [1 .. n -> PipelineKinds], b \in [1 .. m -> PipelineKinds]} :
               <<n, m>> \in {nm \in (0 .. MaxPairs) \X (0 .. MaxPairs) : nm[1] + nm[2] <= MaxPairs}}

\* The reserves the chain may report for one pair: either side above the threshold,
\* the other at it.
ReservesOfPair == {<<ETHER + 1, ETHER>>, <<ETHER, ETHER + 1>>}

\* The responses of getReservesByPairs to a request of n addresses: of the length asked,
\* one short or one long.
Responses(n) ==
    UNION {[1 .. len -> ReservesOfPair] : len \in {n - 1, n, n + 1} \cap Nat}

InitPipeline ==
    /\ registries \in PipelineRegistries
    /\ allPairs = <<>>
    /\ allMarketPairs = <<>>
    /\ reserves = <<>>
    /\ marketsByToken = <<>>
    /\ ppc = "start"
    /\ tokens = <<WETH_ADDRESS, "X">> /\ tokenBalances = constructor(tokens)
    /\ call = NoCall /\ ret = Void
    /\ registry = <<>> /\ i = 0 /\ marketPairs = <<>> /\ requests = <<>> /\ dpc = "idle"

\* Promise.all over factoryAddresses: the markets every factory's discovery returns, in
\* the order of factoryAddresses.
discoverAll(regs) ==
    [n \in 1 .. Len(factoryAddresses) |-> getUniswappyMarkets(regs[n], factoryAddresses[n])]

\* getUniswapMarketsByToken up to its call of updateReserves: the discoveries have all
\* returned, the markets are grouped, and getReservesByPairs is requested.
Discover ==
    /\ ppc = "start"
    /\ allPairs' = discoverAll(registries)
    /\ allMarketPairs' = firstGrouping(allPairs')
    /\ ppc' = "sync"
    /\ UNCHANGED <<registries, reserves, marketsByToken, marketVars, discoverVars>>

\* The response of getReservesByPairs arrives: updateReserves applies it, and
\* getUniswapMarketsByToken filters and groups the markets, or throws.
Synchronize ==
    /\ ppc = "sync"
    /\ \E resp \in Responses(Len(allMarketPairs)) :
        LET updated == updateReserves(allMarketPairs, resp)
            grouped == secondGrouping(updated.markets)
        IN  /\ reserves' = resp
            /\ allMarketPairs' = updated.markets
            /\ IF updated.result.kind = "throw" \/ grouped.result.kind = "throw"
               THEN ppc' = "threw" /\ marketsByToken' = marketsByToken
               ELSE ppc' = "returned" /\ marketsByToken' = grouped.marketsByToken
    /\ UNCHANGED <<registries, allPairs, marketVars, discoverVars>>

NextPipeline == Discover \/ Synchronize

SpecPipeline == InitPipeline /\ [][NextPipeline]_vars

----------------------------------------------------------------------------
(* Claims about the market, checked under Spec *)

Constituents == {tokens[1], tokens[2]}

\* Both constituent assets are keys with a reserve above zero.
PositiveReserves ==
    /\ Constituents \subseteq DOMAIN tokenBalances
    /\ \A t \in Constituents : tokenBalances[t] > 0

\* The last call was a quotation between two constituent assets with defined reserves.
QuotedBetweenConstituents(op) ==
    /\ call.op = op
    /\ call.tokenIn \in Constituents
    /\ call.tokenOut \in Constituents
    /\ Lookup(tokenBalances, call.tokenIn) # undefined
    /\ Lookup(tokenBalances, call.tokenOut) # undefined

\* The last call was a quotation from one constituent asset to the other, on a mapping
\* that holds a reserve for each of the two and nothing else.
QuotedAcross(op) ==
    /\ QuotedBetweenConstituents(op)
    /\ call.tokenIn # call.tokenOut
    /\ DOMAIN tokenBalances = Constituents
    /\ \A t \in Constituents : tokenBalances[t] # undefined

\* C1: on positive reserves and any amountIn >= 0, getTokensOut returns exactly
\* floor((amountIn * 997 * reserveOut) / (reserveIn * 1000 + amountIn * 997)), with
\* reserveIn and reserveOut the market's current reserves of tokenIn and tokenOut.
C1_QuoteAmountOutFormula ==
    (QuotedBetweenConstituents("getTokensOut") /\ PositiveReserves /\ call.amount >= 0)
        => ret = Ok((call.amount * 997 * tokenBalances[call.tokenOut])
                    \div (tokenBalances[call.tokenIn] * 1000 + call.amount * 997))

C1_Witness ==
    /\ QuotedBetweenConstituents("getTokensOut") /\ PositiveReserves
    /\ call.tokenIn # call.tokenOut
    /\ tokenBalances[call.tokenIn] # tokenBalances[call.tokenOut]
    /\ call.amount > 0
    /\ ret.kind = "ok" /\ ret.val > 0

\* C5: getTokensIn fails, returning no amount, whenever amountOut >= reserveOut (stated
\* here for a market with positive reserves, where the quotation is otherwise defined).
C5_InsufficientLiquidityFails ==
    (QuotedAcross("getTokensIn") /\ PositiveReserves
        /\ call.amount >= tokenBalances[call.tokenOut])
        => ret.kind = "throw"

\* C5, the half the code does honour: amountOut = reserveOut divides by zero and throws.
C5_EqualReserveThrows ==
    /\ QuotedAcross("getTokensIn") /\ PositiveReserves
    /\ call.amount = tokenBalances[call.tokenOut]
    /\ ret = Throw("division-by-zero")

\* C6: getTokensOut fails, returning no amount, whenever a reserve is zero, in
\* particular on a freshly constructed market and any amountIn > 0.
C6_ZeroReservesFail ==
    (QuotedAcross("getTokensOut")
        /\ (tokenBalances[call.tokenIn] = 0 \/ tokenBalances[call.tokenOut] = 0)
        /\ call.amount > 0)
        => ret.kind = "throw"

\* C7: for tokens() = (A, B), any reserves and any amountIn > 0, sellTokens with
\* tokenIn = A encodes a non-zero amount1Out and a zero amount0Out; symmetrically for B
\* (stated here for positive reserves, the case that needs no other claim).
C7_NonZeroOutputSlot ==
    (call.op = "sellTokens" /\ call.tokenIn \in Constituents /\ call.amount > 0
        /\ DOMAIN tokenBalances = Constituents /\ PositiveReserves)
        => /\ ret.kind = "ok"
           /\ call.tokenIn = tokens[1] => (ret.amount1Out # 0 /\ ret.amount0Out = 0)
           /\ call.tokenIn = tokens[2] => (ret.amount0Out # 0 /\ ret.amount1Out = 0)

\* C8 as stated: on positive reserves and amountIn > 0,
\* getTokensIn(tokenOut, tokenIn, getTokensOut(tokenIn, tokenOut, amountIn)) <= amountIn
\* (read in the claim's favour: whenever the second quotation returns an amount).
C8_RoundTripAsStated ==
    (QuotedAcross("getTokensOut") /\ PositiveReserves /\ call.amount > 0)
        => LET back == getTokensIn(tokenBalances, call.tokenOut, call.tokenIn, ret.val)
           IN  back.kind = "ok" => back.val <= call.amount

\* C8 as amended: with the assets in the order of the first quotation,
\* getTokensIn(tokenIn, tokenOut, getTokensOut(tokenIn, tokenOut, amountIn)) <= amountIn + 1.
C8_RoundTripAmended ==
    (QuotedAcross("getTokensOut") /\ PositiveReserves /\ call.amount > 0)
        => LET back == getTokensIn(tokenBalances, call.tokenIn, call.tokenOut, ret.val)
           IN  back.kind = "ok" /\ back.val <= call.amount + 1

\* The round trip lands exactly on amountIn + 1: the bound of C8_RoundTripAmended is met.
C8_Witness ==
    /\ QuotedAcross("getTokensOut") /\ PositiveReserves
    /\ call.amount > 0 /\ ret.kind = "ok" /\ ret.val > 0
    /\ getTokensIn(tokenBalances, call.tokenIn, call.tokenOut, ret.val) = Ok(call.amount + 1)

\* The amounts and reserves a quotation is compared with: the values tried and their
\* successors.
Neighbours == {v \in Values \cup {v + 1 : v \in Values} : v > 0}

\* C9 as stated: getAmountOut is strictly increasing in amountIn and in reserveOut and
\* strictly decreasing in reserveIn, over positive inputs.
C9_StrictlyMonotone ==
    (QuotedAcross("getTokensOut") /\ PositiveReserves /\ call.amount > 0)
        => LET rIn == tokenBalances[call.tokenIn]
               rOut == tokenBalances[call.tokenOut]
           IN  \A w \in Neighbours :
                   /\ w > call.amount => getAmountOut(rIn, rOut, w).val > ret.val
                   /\ w > rOut => getAmountOut(rIn, w, call.amount).val > ret.val
                   /\ w > rIn => getAmountOut(w, rOut, call.amount).val < ret.val

\* C9 as amended: getAmountOut is non-decreasing in amountIn and in reserveOut and
\* non-increasing in reserveIn, over positive inputs.
C9_WeaklyMonotone ==
    (QuotedAcross("getTokensOut") /\ PositiveReserves /\ call.amount > 0)
        => LET rIn == tokenBalances[call.tokenIn]
               rOut == tokenBalances[call.tokenOut]
           IN  \A w \in Neighbours :
                   /\ w > call.amount => getAmountOut(rIn, rOut, w).val >= ret.val
                   /\ w > rOut => getAmountOut(rIn, w, call.amount).val >= ret.val
                   /\ w > rIn => getAmountOut(w, rOut, call.amount).val <= ret.val

\* A quotation that a larger amountIn, a larger reserveOut and a smaller reserveIn each
\* leave unchanged or change, so both the equal and the strict case are compared.
C9_Witness ==
    /\ QuotedAcross("getTokensOut") /\ PositiveReserves
    /\ call.amount > 0 /\ ret.kind = "ok"
    /\ LET rIn == tokenBalances[call.tokenIn]
           rOut == tokenBalances[call.tokenOut]
       IN  /\ \E w \in Neighbours : w > call.amount /\ getAmountOut(rIn, rOut, w).val = ret.val
           /\ \E w \in Neighbours : w > call.amount /\ getAmountOut(rIn, rOut, w).val > ret.val
           /\ \E w \in Neighbours : w > rOut /\ getAmountOut(rIn, w, call.amount).val > ret.val
           /\ \E w \in Neighbours : w > rIn /\ getAmountOut(w, rOut, call.amount).val < ret.val

\* C10: after construction and any sequence of reserve-setting calls, the reserve
\* mapping has exactly the two constituent assets as keys, each with a defined reserve,
\* so getBalance of a constituent asset never fails.
C10_ExactlyTwoKeys ==
    /\ DOMAIN tokenBalances = Constituents
    /\ \A t \in DOMAIN tokenBalances : tokenBalances[t] # undefined
    /\ (call.op = "getBalance" /\ call.tokenIn \in Constituents) => ret.kind = "ok"

----------------------------------------------------------------------------
(* Claims about updateReserves and the pipeline, checked under SpecPipeline *)

\* C2: when the response of getReservesByPairs has another length than the markets
\* passed to updateReserves, shorter or longer, the call fails and no market's reserves
\* change (stated here for a request of at least one market).
C2_MismatchFailsWhole ==
    [][(ppc = "sync" /\ ppc' # "sync" /\ allMarketPairs # <<>>
            /\ Len(reserves') # Len(allMarketPairs))
            => (ppc' = "threw" /\ allMarketPairs' = allMarketPairs)]_vars

\* A response one pair short made updateReserves throw after it had updated a market.
C2_PartlyApplied ==
    /\ ppc = "threw"
    /\ Len(reserves) < Len(allMarketPairs)
    /\ \E n \in 1 .. Len(allMarketPairs) :
           allMarketPairs[n].tokenBalances # constructor(allMarketPairs[n].tokens)

\* A response one pair long was applied without an error.
C2_Truncated ==
    /\ ppc = "returned"
    /\ allMarketPairs # <<>>
    /\ Len(reserves) > Len(allMarketPairs)

\* The markets all the discoveries returned, every factory's in its order.
discovered == flatten(allPairs)

RoutableAssets == {"X", "Y", "BL", WETH_ADDRESS}

\* The synchronized reserve of the quote asset of the market at an address: the
\* reserve updateReserves left in it.
SyncedQuoteReserve(marketAddress) ==
    LET n == CHOOSE n \in 1 .. Len(allMarketPairs) :
                 allMarketPairs[n].marketAddress = marketAddress
    IN  Lookup(allMarketPairs[n].tokenBalances, WETH_ADDRESS)

\* Of the discovered markets d, the addresses of those of asset a that share a with
\* another of them and whose synchronized quote reserve is above the threshold.
RoutableMarkets(d, a) ==
    {d[n].marketAddress : n \in
        {n \in 1 .. Len(d) :
            /\ tokenKey(d[n]) = a
            /\ \E m \in 1 .. Len(d) : m # n /\ tokenKey(d[m]) = a
            /\ SyncedQuoteReserve(d[n].marketAddress) > ETHER}}

\* C3: the index getUniswapMarketsByToken returns lists, under each non-quote asset,
\* exactly the discovered markets that share that asset with another discovered market
\* and whose synchronized quote reserve is strictly above the threshold, each once; an
\* asset with no such market is no key.
C3_RoutableIndex ==
    ppc = "returned"
        => LET d == discovered
               routable == [a \in RoutableAssets |-> RoutableMarkets(d, a)]
           IN  /\ DOMAIN marketsByToken = {a \in RoutableAssets : routable[a] # {}}
               /\ \A a \in DOMAIN marketsByToken :
                    LET listed == marketsByToken[a]
                    IN  /\ {listed[n].marketAddress : n \in 1 .. Len(listed)} = routable[a]
                        /\ Len(listed) = Cardinality(routable[a])
                        /\ \A n \in 1 .. Len(listed) : tokenKey(listed[n]) = a

\* An index is returned that lists a market, while one discovered market was dropped
\* for being alone with its asset and another for its reserve at the threshold.
C3_Witness ==
    /\ ppc = "returned"
    /\ Len(reserves) = Len(allMarketPairs)
    /\ marketsByToken # <<>>
    /\ \E n \in 1 .. Len(discovered) :
           \A m \in 1 .. Len(discovered) : m # n => tokenKey(discovered[m]) # tokenKey(discovered[n])
    /\ \E n \in 1 .. Len(allMarketPairs) :
           Lookup(allMarketPairs[n].tokenBalances, WETH_ADDRESS) = ETHER

\* The example of the specification: asset X has one market, asset Y three, all three at
\* or below the threshold after the synchronization, and the returned index is empty.
C3_Example ==
    /\ ppc = "returned"
    /\ Cardinality({n \in 1 .. Len(discovered) : tokenKey(discovered[n]) = "X"}) = 1
    /\ Cardinality({n \in 1 .. Len(discovered) : tokenKey(discovered[n]) = "Y"}) = 3
    /\ Len(allMarketPairs) = 3
    /\ marketsByToken = <<>>

----------------------------------------------------------------------------
(* Claims about the discovery, checked under SpecDiscover *)

\* The number of pairs the k-th page requested holds.
PageLength(k) ==
    Len(getPairsByIndexRange(registry, "f1", requests[k], requests[k] + UNISWAP_BATCH_SIZE))

\* The pages are requested in increasing index order, no page follows a page shorter
\* than the batch size, at most BATCH_COUNT_LIMIT pages are requested, and a registry
\* whose first page is short is read with one request.
C4_Pages ==
    /\ \A k \in 1 .. Len(requests) : requests[k] = (k - 1) * UNISWAP_BATCH_SIZE
    /\ Len(requests) <= BATCH_COUNT_LIMIT
    /\ \A k \in 1 .. Len(requests) :
           PageLength(k) < UNISWAP_BATCH_SIZE => (k = Len(requests) /\ dpc = "returned")
    /\ (dpc = "returned" /\ Len(registry) < UNISWAP_BATCH_SIZE) => Len(requests) = 1

\* C4: getUniswappyMarkets always terminates, requesting its pages in increasing index
\* order, stopping right after the first page shorter than the batch size and never
\* requesting more than BATCH_COUNT_LIMIT pages; a registry whose first page is short
\* is read with exactly one request.
C4_DiscoveryTerminates == [](C4_Pages) /\ <>(dpc = "returned")

\* The discovery returned after a full page and then a short, non-empty one.
C4_Witness ==
    /\ dpc = "returned"
    /\ Len(requests) >= 2
    /\ PageLength(Len(requests)) > 0
    /\ PageLength(Len(requests)) < UNISWAP_BATCH_SIZE

\* The discovery returned at the page limit with pairs of the registry still unread.
C4_LimitReached ==
    /\ dpc = "returned"
    /\ Len(requests) = BATCH_COUNT_LIMIT
    /\ Len(registry) > BATCH_COUNT_LIMIT * UNISWAP_BATCH_SIZE

====
